---- MODULE Spec2Model ----
(***************************************************************************)
(* A model of pagerank.py: transition_model, sample_pagerank, is_coverged  *)
(* and iterate_pagerank.                                                   *)
(*                                                                         *)
(* Pages are the integers 1..N; a corpus is a function from its pages to   *)
(* sets of pages, and the iteration order of the dict is 1, 2, ..., N.     *)
(* damping_factor is held in percent (85 for 0.85).  The probabilities of  *)
(* transition_model are held in units of 10^-5, the precision round(x, 5)  *)
(* leaves.  The ranks of iterate_pagerank are floats in the program and    *)
(* fixed-point numbers here, in units of 1/Scale, every division rounded   *)
(* to the nearest unit.  The ranks of sample_pagerank are the quotients    *)
(* count / n, held as the pair of numerator and denominator.               *)
(***************************************************************************)
EXTENDS Integers, Sequences, FiniteSets

VARIABLES
    call,            \* the function being run
    heap,            \* the dict objects: the caller's corpus, the callee's corpus_copy
    page,            \* transition_model's argument; sample_pagerank's current page
    damping_factor,  \* in percent
    n,               \* sample_pagerank's sample count
    pc,              \* position in the running function
    error,           \* the exception raised, "none" when none
    model,           \* transition_model's return value
    samples,         \* sample_pagerank's list of visited pages
    ranks,           \* the ranks dict of the running estimator
    old_ranks,       \* iterate_pagerank's snapshot taken before a sweep
    idx              \* sample_pagerank: passes of the for loop made;
                     \* iterate_pagerank: position of `for rank in ranks`

vars == <<call, heap, page, damping_factor, n, pc, error, model, samples,
          ranks, old_ranks, idx>>

(* ------------------------------ bounds ------------------------------ *)

MaxPages == 3
MaxN == 2
Dampings == {0, 50, 85, 100}
Scale == 10^6

(* ----------------------------- helpers ------------------------------ *)

\* a / b for a >= 0, b > 0, rounded to the nearest integer, ties to even
RoundDiv(a, b) ==
    LET q == a \div b
        r == a % b
    IN  IF 2 * r < b THEN q
        ELSE IF 2 * r > b THEN q + 1
        ELSE IF q % 2 = 0 THEN q ELSE q + 1

RECURSIVE SumOver(_, _)
SumOver(f, S) ==
    IF S = {} THEN 0
    ELSE LET x == CHOOSE y \in S : TRUE
         IN  f[x] + SumOver(f, S \ {x})

\* list.count
Count(s, p) == Cardinality({j \in 1..Len(s) : s[j] = p})

\* the graphs crawl can build: no self links, every link a page of the corpus
Corpora ==
    UNION {{c \in [1..k -> SUBSET (1..k)] : \A p \in 1..k : p \notin c[p]}
           : k \in 0..MaxPages}

(* -------------------------- dict objects ---------------------------- *)

\* the object the name corpus_copy is bound to after corpus.copy()
AliasRef == "corpus"
CopyRef == "corpus_copy"

\* corpus.copy(): a new dict with the same items
DictCopy(h) == [h EXCEPT !.corpus_copy = h.corpus]

(* ------------------------- transition_model ------------------------- *)

\* line 80 with `=` in place of `+=`
AddPageProbabilityAssign(m, keys, page_probability) ==
    [q \in DOMAIN m |-> IF q \in keys THEN page_probability ELSE m[q]]

\* for page in corpus_copy: model[page] += page_probability
AddPageProbability(m, keys, page_probability) ==
    [q \in DOMAIN m |-> IF q \in keys THEN m[q] + page_probability ELSE m[q]]

\* returns the model and the heap the call leaves behind
transition_model(h, pg, d) ==
    LET h1 == DictCopy(h)
        model0 == [q \in DOMAIN h1[CopyRef] |-> 0]
        num_page == Cardinality(DOMAIN model0)
        h2 == IF h1[CopyRef][pg] = {}
              THEN [h1 EXCEPT ![CopyRef][pg] = DOMAIN h1[CopyRef]]
              ELSE h1
        links == h2[CopyRef][pg]
        num_links == Cardinality(links)
        link_probability == RoundDiv(d * 1000, num_links)
        model1 == [q \in DOMAIN model0 |->
                      IF q \in links THEN link_probability ELSE model0[q]]
        page_probability == RoundDiv((100 - d) * 1000, num_page)
    IN  [model |-> AddPageProbability(model1, DOMAIN h2[CopyRef], page_probability),
         heap |-> h2]

CallTransitionModel ==
    /\ call = "transition_model"
    /\ pc = "start"
    /\ LET r == transition_model(heap, page, damping_factor)
       IN  /\ model' = r.model
           /\ heap' = r.heap
    /\ pc' = "done"
    /\ UNCHANGED <<call, page, damping_factor, n, error, samples, ranks,
                   old_ranks, idx>>

(* -------------------------- sample_pagerank ------------------------- *)

WalkLengthOffByOne(k) == k
\* range(n - 1)
WalkLength(k) == k - 1

\* page = random.choice(list(corpus.keys())); samples = [page]
SampleFirst ==
    /\ call = "sample_pagerank"
    /\ pc = "start"
    /\ \/ /\ DOMAIN heap.corpus = {}
          /\ error' = "IndexError"
          /\ pc' = "raised"
          /\ UNCHANGED <<page, samples>>
       \/ /\ \E p \in DOMAIN heap.corpus :
                /\ page' = p
                /\ samples' = <<p>>
          /\ pc' = "walk"
          /\ UNCHANGED error
    /\ UNCHANGED <<call, heap, damping_factor, n, model, ranks, old_ranks, idx>>

\* one pass of the for loop: the weighted draw picks a page of positive weight
SampleStep ==
    /\ call = "sample_pagerank"
    /\ pc = "walk"
    /\ idx < WalkLength(n)
    /\ LET r == transition_model(heap, page, damping_factor)
       IN  /\ heap' = r.heap
           /\ model' = r.model
           /\ \E p \in {q \in DOMAIN r.model : r.model[q] > 0} :
                /\ page' = p
                /\ samples' = Append(samples, p)
    /\ idx' = idx + 1
    /\ UNCHANGED <<call, damping_factor, n, pc, error, ranks, old_ranks>>

\* ranks = {page: samples.count(page) / n for page in samples}; return ranks
SampleRanks ==
    /\ call = "sample_pagerank"
    /\ pc = "walk"
    /\ idx >= WalkLength(n)
    /\ \/ /\ n = 0
          /\ error' = "ZeroDivisionError"
          /\ pc' = "raised"
          /\ UNCHANGED ranks
       \/ /\ n # 0
          /\ ranks' = [p \in {samples[j] : j \in 1..Len(samples)} |->
                          [num |-> Count(samples, p), den |-> n]]
          /\ pc' = "done"
          /\ UNCHANGED error
    /\ UNCHANGED <<call, heap, page, damping_factor, n, model, samples,
                   old_ranks, idx>>

(* ------------------------- iterate_pagerank ------------------------- *)

CONVERGENCE == Scale \div 1000

is_coverged_no_threshold(old, new) ==
    IF old = <<>> \/ new = <<>> THEN FALSE
    ELSE \A p \in DOMAIN old : ~(new[p] - old[p] >= 0)

is_coverged(old, new) ==
    IF old = <<>> \/ new = <<>> THEN FALSE
    ELSE \A p \in DOMAIN old : ~(new[p] - old[p] > CONVERGENCE)

\* lines 152-153, over one full pass of `for page in corpus_copy`
Substituted(c) == [p \in DOMAIN c |-> IF c[p] = {} THEN DOMAIN c ELSE c[p]]

\* link_prob after the inner loop: the sum of rk[page] / len(corpus_copy[page])
\* over the pages that link to rank
LinkProb(c, rk, rank) ==
    LET share == [p \in DOMAIN c |-> RoundDiv(rk[p], Cardinality(c[p]))]
    IN  SumOver(share, {p \in DOMAIN c : rank \in c[p]})

\* the value line 158 stores
NewRank(c, rk, rank, d) ==
    LET random_prob == RoundDiv((100 - d) * Scale, 100 * Cardinality(DOMAIN c))
    IN  random_prob + RoundDiv(d * LinkProb(c, rk, rank), 100)

\* lines 132-138
IterStart ==
    /\ call = "iterate_pagerank"
    /\ pc = "start"
    /\ heap' = DictCopy(heap)
    /\ \/ /\ DOMAIN heap.corpus = {}
          /\ error' = "ZeroDivisionError"
          /\ pc' = "raised"
          /\ UNCHANGED <<ranks, old_ranks>>
       \/ /\ DOMAIN heap.corpus # {}
          /\ ranks' = [p \in DOMAIN heap.corpus |->
                          RoundDiv(Scale, Cardinality(DOMAIN heap.corpus))]
          /\ old_ranks' = <<>>
          /\ pc' = "check"
          /\ UNCHANGED error
    /\ UNCHANGED <<call, page, damping_factor, n, model, samples, idx>>

\* lines 141-144: break, or snapshot and start a sweep
IterCheck ==
    /\ call = "iterate_pagerank"
    /\ pc = "check"
    /\ \/ /\ is_coverged(old_ranks, ranks)
          /\ pc' = "done"
          /\ UNCHANGED <<old_ranks, idx>>
       \/ /\ ~is_coverged(old_ranks, ranks)
          /\ old_ranks' = ranks
          /\ idx' = 1
          /\ pc' = "sweep"
    /\ UNCHANGED <<call, heap, page, damping_factor, n, error, model, samples,
                   ranks>>

\* one pass of `for rank in ranks`: lines 147-158
UpdateRank ==
    /\ call = "iterate_pagerank"
    /\ pc = "sweep"
    /\ LET h2 == [heap EXCEPT ![CopyRef] = Substituted(heap[CopyRef])]
           rank == idx
       IN  /\ heap' = h2
           /\ ranks' = [ranks EXCEPT
                           ![rank] = NewRank(h2[CopyRef], ranks, rank, damping_factor)]
    /\ IF idx = Cardinality(DOMAIN ranks)
       THEN pc' = "check" /\ idx' = 0
       ELSE pc' = "sweep" /\ idx' = idx + 1
    /\ UNCHANGED <<call, page, damping_factor, n, error, model, samples,
                   old_ranks>>

(* -------------------------- specifications -------------------------- *)

InitCommon ==
    /\ heap \in {[corpus |-> c, corpus_copy |-> <<>>] : c \in Corpora}
    /\ damping_factor \in Dampings
    /\ pc = "start"
    /\ error = "none"
    /\ model = <<>>
    /\ samples = <<>>
    /\ ranks = <<>>
    /\ old_ranks = <<>>
    /\ idx = 0

InitTransition ==
    /\ InitCommon
    /\ call = "transition_model"
    /\ page \in DOMAIN heap.corpus
    /\ n = 0

InitSample ==
    /\ InitCommon
    /\ call = "sample_pagerank"
    /\ page = 0
    /\ n \in -1..MaxN

InitIterate ==
    /\ InitCommon
    /\ call = "iterate_pagerank"
    /\ page = 0
    /\ n = 0

Init == InitTransition \/ InitSample \/ InitIterate

NextSample == SampleFirst \/ SampleStep \/ SampleRanks

NextIterate == IterStart \/ IterCheck \/ UpdateRank

Next == CallTransitionModel \/ NextSample \/ NextIterate

Spec == Init /\ [][Next]_vars

SpecTransition == InitTransition /\ [][CallTransitionModel]_vars

SpecSample == InitSample /\ [][NextSample]_vars

SpecIterate == InitIterate /\ [][NextIterate]_vars

\* the interpreter runs the loop on: a step that can be taken is taken;
\* damping_factor < 1, the dampings the ranks are meant to settle for
InitFairIterate == InitIterate /\ damping_factor < 100

FairIterate == InitFairIterate /\ [][NextIterate]_vars /\ WF_vars(NextIterate)

(* ------------------------------ claims ------------------------------ *)

Abs(x) == IF x < 0 THEN -x ELSE x

NumPages == Cardinality(DOMAIN heap.corpus)

\* the effective outbound set of p: every page when p has no links
EffectiveLinks(p) ==
    IF heap.corpus[p] = {} THEN DOMAIN heap.corpus ELSE heap.corpus[p]

\* C1: transition_model returns a mapping over exactly the pages of the graph;
\* a page of the effective outbound set of `page` has damping/k + (1-damping)/N
\* and every other page (1-damping)/N, each term rounded to 5 decimals.
C1_TransitionValues ==
    (call = "transition_model" /\ pc = "done") =>
        /\ DOMAIN model = DOMAIN heap.corpus
        /\ \A q \in DOMAIN heap.corpus :
              model[q] =
                 (IF q \in EffectiveLinks(page)
                  THEN RoundDiv(damping_factor * 1000, Cardinality(EffectiveLinks(page)))
                  ELSE 0)
                 + RoundDiv((100 - damping_factor) * 1000, NumPages)

C1_Witness ==
    /\ call = "transition_model"
    /\ pc = "done"
    /\ heap.corpus[page] = {}
    /\ NumPages >= 2
    /\ damping_factor = 85
    /\ model[page] > RoundDiv((100 - damping_factor) * 1000, NumPages)

\* C2: for damping < 1 the ranks of iterate_pagerank sum to 1 within 1e-3 at
\* the end of every sweep and when they are returned.
C2_RanksSumToOne ==
    (call = "iterate_pagerank" /\ damping_factor < 100 /\ pc \in {"check", "done"}) =>
        Abs(SumOver(ranks, DOMAIN ranks) - Scale) <= Scale \div 1000

\* C3: for n >= 1 sample_pagerank returns a rank for every page of the graph,
\* 0 for a page the walk never visited; for n = 1 one page has rank 1 and
\* every other page rank 0.
C3_EveryPageRanked ==
    (call = "sample_pagerank" /\ pc = "done" /\ n >= 1) =>
        /\ DOMAIN ranks = DOMAIN heap.corpus
        /\ \A p \in DOMAIN heap.corpus :
              Count(samples, p) = 0 => ranks[p].num = 0

\* C4: for n >= 1 the walk records exactly n steps, each on a page of the
\* graph; every returned rank is (steps on that page)/n, a multiple of 1/n,
\* and the returned ranks sum to exactly 1.
C4_WalkOfNSteps ==
    (call = "sample_pagerank" /\ pc = "done" /\ n >= 1) =>
        /\ Len(samples) = n
        /\ \A j \in 1..Len(samples) : samples[j] \in DOMAIN heap.corpus
        /\ \A p \in DOMAIN ranks :
              /\ ranks[p].den = n
              /\ ranks[p].num = Count(samples, p)
        /\ SumOver([p \in DOMAIN ranks |-> ranks[p].num], DOMAIN ranks) = n

C4_Witness ==
    /\ call = "sample_pagerank"
    /\ pc = "done"
    /\ n = 2
    /\ Len(samples) = 2
    /\ samples[1] # samples[2]
    /\ ranks[samples[1]] = [num |-> 1, den |-> 2]

\* C5: no step of transition_model, sample_pagerank or iterate_pagerank
\* changes the caller's graph: the substitution for a page without links is
\* made in the callee's copy only.
C5_CorpusUnchanged == [][heap'.corpus = heap.corpus]_vars

C5_Witness ==
    /\ pc = "done"
    /\ \E p \in DOMAIN heap.corpus :
          /\ heap.corpus[p] = {}
          /\ heap.corpus_copy[p] = DOMAIN heap.corpus

\* C6: on a non-empty graph with damping < 1 iterate_pagerank leaves the loop
\* and returns; it is only ever initialised, iterating or finished.
C6_Terminates ==
    /\ [](pc \in {"start", "check", "sweep", "done", "raised"})
    /\ (call = "iterate_pagerank" /\ NumPages >= 1 /\ damping_factor < 100)
          ~> (pc = "done")

C6_Witness ==
    /\ call = "iterate_pagerank"
    /\ pc = "done"
    /\ damping_factor = 85
    /\ NumPages = MaxPages
    /\ \E p \in DOMAIN ranks : ranks[p] # old_ranks[p]
    /\ \E p \in DOMAIN ranks : ranks[p] # RoundDiv(Scale, NumPages)

\* C7: sample_pagerank called with n < 1 on a graph with pages fails (with
\* InvalidParameter): it never returns a mapping.
C7_NoMappingForSmallN ==
    (call = "sample_pagerank" /\ n < 1 /\ NumPages >= 1) => pc # "done"

\* C8: on a graph without pages both estimators fail with InvalidGraph,
\* before anything is computed.
C8_RejectsEmptyGraph ==
    (call \in {"sample_pagerank", "iterate_pagerank"} /\ NumPages = 0 /\ pc # "start") =>
        (pc = "raised" /\ error = "InvalidGraph")

\* C9: a sweep is a synchronous update: at its end every rank is the value
\* of the PageRank equation on the snapshot taken before the sweep.
C9_SynchronousSweep ==
    (call = "iterate_pagerank" /\ pc = "check" /\ old_ranks # <<>>) =>
        \A p \in DOMAIN ranks :
            ranks[p] = NewRank(Substituted(heap.corpus), old_ranks, p, damping_factor)

\* C10: when iterate_pagerank returns, no rank differs from its value in the
\* previous snapshot by more than 0.001, upwards or downwards (stated for
\* damping < 1, where the ranks are meant to settle).
C10_StopsWithinThreshold ==
    (call = "iterate_pagerank" /\ pc = "done" /\ damping_factor < 100) =>
        \A p \in DOMAIN ranks : Abs(ranks[p] - old_ranks[p]) <= CONVERGENCE

====
